---- MODULE Spec2Model ----
(***************************************************************************)
(* Stock dashboard backend (apps/stock-dashboard/backend): configuration,  *)
(* start-up, the ingestion handler fetch_stock, the stock_prices table and *)
(* the indicator handler get_indicators.                                   *)
(*                                                                         *)
(* The table is modelled as PostgreSQL keeps it: a heap of rows, here a    *)
(* sequence in insertion order.  Each request handler runs in its own      *)
(* worker thread with its own connection; rows inserted on a connection    *)
(* are private to it (pend) until conn.commit() publishes them.            *)
(***************************************************************************)
EXTENDS Integers, Sequences, FiniteSets, TLC

\* ---------------------------------------------------------------- bounds
MaxDay == 2          \* trading days the bar source knows about: 1..MaxDay
TicksPerDay == 2     \* clock ticks per calendar day (a bar is stamped at midnight)
MaxHist == 101       \* longest pre-loaded history of the indicator specification

\* ------------------------------------------------------- program constants
SMA_SHORT == 20
SMA_MID == 50
SMA_LONG == 100
BB_WINDOW == 20
BB_K == 2

Procs == {"r1", "r2"}                \* request threads: one /api/fetch request each
Tickers == {"aapl", "MSFT"}          \* <ticker> path segments clients send
\* What the process environment can hold for ENV and DB_PASSWORD.
EnvValues == {"unset", "development", "staging", "production", "prod"}
PasswordEnv == {"unset", "postgres", "password", "s3cret"}

VARIABLES
    environ,      \* process environment: [ENV, DB_PASSWORD], "unset" when absent
    phase,        \* "start" -> "initialized" -> "serving"
    tableExists,  \* whether relation stock_prices exists in the database
    table,        \* committed rows of stock_prices, in heap order
    pc,           \* per request: "idle", "fetched", "insert", "done"
    tk,           \* per request: the ticker argument of its request
    df,           \* per request: the frame stock.history() returned
    i,            \* per request: number of frame rows iterated so far
    pend,         \* per request: rows inserted on its connection, not committed
    resp,         \* per request: the response of fetch_stock
    indicators    \* the last response of get_indicators

vars == <<environ, phase, tableExists, table, pc, tk, df, i, pend, resp, indicators>>

\* ------------------------------------------------------------ config.py
\* os.getenv(name, default)
getenv(name, default) ==
    IF environ[name] = "unset" THEN default ELSE environ[name]

\* class Config: the attributes app.py and validate read
Config ==
    [DB_PASSWORD |-> getenv("DB_PASSWORD", "postgres"),
     ENV |-> getenv("ENV", "development")]

\* Config.validate: "ok" or the exception it raises.  No code path of the
\* backend calls it.
validate ==
    IF Config.ENV \notin {"development", "staging", "production"}
    THEN "ValueError: Invalid ENV"
    ELSE IF Config.DB_PASSWORD = "password" /\ Config.ENV = "production"
         THEN "ValueError: Default DB_PASSWORD used in production!"
         ELSE "ok"

\* app.py: DB_PASSWORD = Config.DB_PASSWORD
DB_PASSWORD == Config.DB_PASSWORD

\* ---------------------------------------------------------------- helpers
\* str.upper() on the tickers of the model
upper(s) ==
    CASE s = "aapl" -> "AAPL"
      [] s = "msft" -> "MSFT"
      [] OTHER -> s

\* Timestamp.date(): the calendar day of a timestamp
Date(t) == t \div TicksPerDay

\* ------------------------------------------------------------- bar source
\* The OHLCV values a daily bar can carry.
BarValues ==
    {[Open |-> 1, High |-> 2, Low |-> 1, Close |-> 1, Volume |-> 10],
     [Open |-> 1, High |-> 3, Low |-> 1, Close |-> 2, Volume |-> 20]}

RECURSIVE DaysAscending(_)
DaysAscending(S) ==
    IF S = {} THEN <<>>
    ELSE LET d == CHOOSE x \in S : \A y \in S : x <= y
         IN <<d>> \o DaysAscending(S \ {d})

\* What stock.history(period="1y") can return: a frame indexed by strictly
\* increasing midnight timestamps, possibly empty.
Frames ==
    UNION {
      { [k \in 1..Cardinality(S) |->
            [time |-> DaysAscending(S)[k] * TicksPerDay,
             Open |-> f[DaysAscending(S)[k]].Open,
             High |-> f[DaysAscending(S)[k]].High,
             Low |-> f[DaysAscending(S)[k]].Low,
             Close |-> f[DaysAscending(S)[k]].Close,
             Volume |-> f[DaysAscending(S)[k]].Volume]] : f \in [S -> BarValues] }
      : S \in SUBSET (1..MaxDay) }

\* ------------------------------------------------------------- responses
\* A response is its HTTP status and its JSON body: keys names the members
\* the body has, and a member it lacks holds a filler value.
NoResponse ==
    [status |-> 0, keys |-> {}, error |-> "", ticker |-> "", rows_imported |-> 0,
     date_range |-> <<0, 0>>]

\* jsonify({"error": msg}), code
ErrorResponse(code, msg) ==
    [status |-> code, keys |-> {"error"}, error |-> msg, ticker |-> "",
     rows_imported |-> 0, date_range |-> <<0, 0>>]

\* The tuple bound to the INSERT statement for frame row r.
Row(ticker, r) ==
    [time |-> r.time, ticker |-> upper(ticker), open |-> r.Open, high |-> r.High,
     low |-> r.Low, close |-> r.Close, volume |-> r.Volume]

\* SuccessResponse echoing the ticker as the client wrote it.
SuccessResponse_raw(ticker, frame) ==
    [status |-> 200, keys |-> {"ticker", "rows_imported", "date_range"},
     error |-> "", ticker |-> ticker, rows_imported |-> Len(frame),
     date_range |-> <<Date(frame[1].time), Date(frame[Len(frame)].time)>>]

\* The body fetch_stock returns after the commit.
SuccessResponse(ticker, frame) ==
    [status |-> 200, keys |-> {"ticker", "rows_imported", "date_range"},
     error |-> "", ticker |-> upper(ticker), rows_imported |-> Len(frame),
     date_range |-> <<Date(frame[1].time), Date(frame[Len(frame)].time)>>]

NoIndicators == [status |-> 0, error |-> "", ticker |-> "", data |-> <<>>]

\* ---------------------------------------------------------------- Init
\* The process starts with nothing served and nothing stored.  Whether the
\* relation exists is the database's state, not the program's.
Fresh ==
    /\ phase = "start"
    /\ tableExists \in BOOLEAN
    /\ table = <<>>
    /\ pc = [p \in Procs |-> "idle"]
    /\ tk = [p \in Procs |-> ""]
    /\ df = [p \in Procs |-> <<>>]
    /\ i = [p \in Procs |-> 0]
    /\ pend = [p \in Procs |-> <<>>]
    /\ resp = [p \in Procs |-> NoResponse]
    /\ indicators = NoIndicators

\* Start-up under every environment.
InitBoot ==
    /\ environ \in [{"ENV", "DB_PASSWORD"} -> EnvValues \cup PasswordEnv]
    /\ environ["ENV"] \in EnvValues
    /\ environ["DB_PASSWORD"] \in PasswordEnv
    /\ Fresh

\* The request handlers read nothing of Config but the connection
\* parameters, so they are explored under the documented defaults.
Init ==
    /\ environ = [ENV |-> "unset", DB_PASSWORD |-> "unset"]
    /\ Fresh

\* ------------------------------------------------------------- start-up
\* init_db().  Nothing it does reaches the database: with no connection it
\* returns at once; with one, the column type TIMESTAMPZ is unknown to
\* PostgreSQL when the table is absent, and the create_hypertable call (no
\* comma before if_not_exists) is a syntax error that aborts the transaction
\* when the table is present, so CREATE INDEX raises, the handler logs it and
\* the connection is closed without a commit.
init_db ==
    /\ phase = "start"
    /\ phase' = "initialized"
    /\ UNCHANGED <<environ, tableExists, table, pc, tk, df, i, pend, resp, indicators>>

\* app.run(host="0.0.0.0", port=5000): requests are served from here on.
\* Nothing between import and app.run looks at Config.ENV.
app_run ==
    /\ phase = "initialized"
    /\ phase' = "serving"
    /\ UNCHANGED <<environ, tableExists, table, pc, tk, df, i, pend, resp, indicators>>

\* ---------------------------------------------------------- fetch_stock
\* The handler returns: its locals and its connection go out of scope.  A
\* connection dropped with its transaction open is rolled back by the server.
Return(p) ==
    /\ pc' = [pc EXCEPT ![p] = "done"]
    /\ tk' = [tk EXCEPT ![p] = ""]
    /\ df' = [df EXCEPT ![p] = <<>>]
    /\ i' = [i EXCEPT ![p] = 0]
    /\ pend' = [pend EXCEPT ![p] = <<>>]

\* stock.history(period="1y") returns frame d for the request /api/fetch/<t>.
FetchHistory(p, t, d) ==
    /\ phase = "serving" /\ pc[p] = "idle"
    /\ tk' = [tk EXCEPT ![p] = t]
    /\ df' = [df EXCEPT ![p] = d]
    /\ i' = [i EXCEPT ![p] = 0]
    /\ pend' = [pend EXCEPT ![p] = <<>>]
    /\ resp' = [resp EXCEPT ![p] = NoResponse]
    /\ pc' = [pc EXCEPT ![p] = "fetched"]
    /\ UNCHANGED <<environ, phase, tableExists, table, indicators>>

\* yf.Ticker / stock.history raises: the except clause answers 500.
FetchSourceError(p, t) ==
    /\ phase = "serving" /\ pc[p] = "idle"
    /\ resp' = [resp EXCEPT ![p] = ErrorResponse(500, "exception")]
    /\ pc' = [pc EXCEPT ![p] = "done"]
    /\ UNCHANGED <<environ, phase, tableExists, table, tk, df, i, pend, indicators>>

\* FetchNoData without the emptiness test: the handler goes on to the store.
FetchNoData_unchecked(p) ==
    /\ pc[p] = "fetched" /\ df[p] = <<>>
    /\ pc' = [pc EXCEPT ![p] = "insert"]
    /\ UNCHANGED <<environ, phase, tableExists, table, tk, df, i, pend, resp, indicators>>

\* if df.empty: return 404
FetchNoData(p) ==
    /\ pc[p] = "fetched" /\ df[p] = <<>>
    /\ resp' = [resp EXCEPT ![p] = ErrorResponse(404, "No data found")]
    /\ Return(p)
    /\ UNCHANGED <<environ, phase, tableExists, table, indicators>>

\* get_db_connection() returned a connection; cur = conn.cursor()
FetchConnect(p) ==
    /\ pc[p] = "fetched" /\ df[p] # <<>>
    /\ pc' = [pc EXCEPT ![p] = "insert"]
    /\ UNCHANGED <<environ, phase, tableExists, table, tk, df, i, pend, resp, indicators>>

\* get_db_connection() returned None
FetchConnectFail(p) ==
    /\ pc[p] = "fetched" /\ df[p] # <<>>
    /\ resp' = [resp EXCEPT ![p] = ErrorResponse(500, "Database connection failed")]
    /\ Return(p)
    /\ UNCHANGED <<environ, phase, tableExists, table, indicators>>

\* InsertBar on a connection in autocommit mode: the row is published at once.
InsertBar_autocommit(p) ==
    /\ pc[p] = "insert" /\ i[p] < Len(df[p]) /\ tableExists
    /\ table' = Append(table, Row(tk[p], df[p][i[p] + 1]))
    /\ i' = [i EXCEPT ![p] = @ + 1]
    /\ UNCHANGED <<environ, phase, tableExists, pc, tk, df, pend, resp, indicators>>

\* One iteration of the loop: INSERT ... ON CONFLICT DO NOTHING.  The table
\* declares no unique index or exclusion constraint, so no insert conflicts
\* and the row is added to the connection's open transaction.
InsertBar(p) ==
    /\ pc[p] = "insert" /\ i[p] < Len(df[p]) /\ tableExists
    /\ pend' = [pend EXCEPT ![p] = Append(@, Row(tk[p], df[p][i[p] + 1]))]
    /\ i' = [i EXCEPT ![p] = @ + 1]
    /\ UNCHANGED <<environ, phase, tableExists, table, pc, tk, df, resp, indicators>>

\* cur.execute raises (relation missing, connection lost): the except clause
\* answers 500; the connection is dropped with its transaction open, which
\* the server rolls back.
InsertFail(p) ==
    /\ pc[p] = "insert" /\ i[p] < Len(df[p])
    /\ resp' = [resp EXCEPT ![p] = ErrorResponse(500, "exception")]
    /\ Return(p)
    /\ UNCHANGED <<environ, phase, tableExists, table, indicators>>

\* Commit of an upsert that replaces: the stored rows with the key of a
\* pending row are deleted, then the pending rows are added.
Commit_replace(p) ==
    /\ pc[p] = "insert" /\ i[p] = Len(df[p])
    /\ LET Kept(r) == \A k \in 1..Len(pend[p]) :
                         ~(r.ticker = pend[p][k].ticker /\ r.time = pend[p][k].time)
       IN table' = SelectSeq(table, Kept) \o pend[p]
    /\ resp' = [resp EXCEPT ![p] = SuccessResponse(tk[p], df[p])]
    /\ Return(p)
    /\ UNCHANGED <<environ, phase, tableExists, indicators>>

\* conn.commit(), close, and the success body.
Commit(p) ==
    /\ pc[p] = "insert" /\ i[p] = Len(df[p])
    /\ table' = table \o pend[p]
    /\ resp' = [resp EXCEPT ![p] = SuccessResponse(tk[p], df[p])]
    /\ Return(p)
    /\ UNCHANGED <<environ, phase, tableExists, indicators>>

\* conn.commit() raises: nothing of the transaction is published.
CommitFail(p) ==
    /\ pc[p] = "insert" /\ i[p] = Len(df[p])
    /\ resp' = [resp EXCEPT ![p] = ErrorResponse(500, "exception")]
    /\ Return(p)
    /\ UNCHANGED <<environ, phase, tableExists, table, indicators>>

\* -------------------------------------------------------- get_indicators
\* SELECT time, ticker, close, volume FROM stock_prices WHERE ticker = %s,
\* bound to ticker.upper(): the matching rows, in heap order.
SelectRows(rows, t) ==
    LET Match(r) == r.ticker = upper(t)
        hit == SelectSeq(rows, Match)
    IN [n \in 1..Len(hit) |->
          [time |-> hit[n].time, ticker |-> hit[n].ticker, close |-> hit[n].close,
           volume |-> hit[n].volume]]

Reverse(s) == [n \in 1..Len(s) |-> s[Len(s) + 1 - n]]

\* Where row j of s lands in a stable ascending sort on time: after the rows
\* of smaller time and the earlier rows of equal time.
SortedPosition(s, j) ==
    Cardinality({m \in 1..Len(s) :
                    \/ s[m].time < s[j].time
                    \/ (s[m].time = s[j].time /\ m <= j)})

\* The rows of s placed by the positions pos.
Placed(s, pos) == [n \in 1..Len(s) |-> s[CHOOSE j \in 1..Len(s) : pos[j] = n]]

\* ORDER BY time ASC, then df.sort_values("time"): ascending in time, rows of
\* equal time keeping the order in which the scan met them.
SortByTime(s) ==
    CHOOSE r \in {Placed(s, pos) : pos \in {[j \in 1..Len(s) |-> SortedPosition(s, j)]}} :
        TRUE

\* Sum and sum of squares of the closes of rows[a..b].
RECURSIVE Sum(_, _, _)
Sum(rows, a, b) ==
    IF b < a THEN 0
    ELSE IF a = b THEN rows[a].close
         ELSE Sum(rows, a, (a + b) \div 2) + Sum(rows, (a + b) \div 2 + 1, b)

RECURSIVE SumSq(_, _, _)
SumSq(rows, a, b) ==
    IF b < a THEN 0
    ELSE IF a = b THEN rows[a].close * rows[a].close
         ELSE SumSq(rows, a, (a + b) \div 2) + SumSq(rows, (a + b) \div 2 + 1, b)

\* A float cell: NaN, or the exact value it stands for.  A mean is the
\* rational num/den; a standard deviation is sqrt(rnum/rden); a band is
\* num/den + k * sqrt(rnum/rden).
NaN == [def |-> FALSE, num |-> 0, den |-> 1, k |-> 0, rnum |-> 0, rden |-> 1]

\* Rolling.mean() of the closes of rows[a..b]
mean(rows, a, b) ==
    [def |-> TRUE, num |-> Sum(rows, a, b), den |-> b - a + 1, k |-> 0,
     rnum |-> 0, rden |-> 1]

\* Rolling.std() of the closes of rows[a..b]: sample standard deviation
\* (ddof = 1)
std(rows, a, b) ==
    LET cnt == b - a + 1
    IN IF cnt < 2 THEN NaN
       ELSE [def |-> TRUE, num |-> 0, den |-> 1, k |-> 1,
             rnum |-> cnt * SumSq(rows, a, b) - Sum(rows, a, b) * Sum(rows, a, b),
             rden |-> cnt * (cnt - 1)]

\* First position of the trailing window of size w that ends at position n.
WindowStart(w, n) == IF n - w + 1 > 1 THEN n - w + 1 ELSE 1

\* RollingDefined for .rolling(window=w, min_periods=1)
RollingDefined_min1(w, n) == n - WindowStart(w, n) + 1 >= 1

\* .rolling(window=w): min_periods defaults to the window size, so a cell
\* with fewer than w observations behind it is NaN.
RollingDefined(w, n) == n - WindowStart(w, n) + 1 >= w

\* df["close"].rolling(window=w).mean(), cell n
rolling_mean(rows, w, n) ==
    IF RollingDefined(w, n) THEN mean(rows, WindowStart(w, n), n) ELSE NaN

\* df["close"].rolling(window=w).std(), cell n
rolling_std(rows, w, n) ==
    IF RollingDefined(w, n) THEN std(rows, WindowStart(w, n), n) ELSE NaN

\* df["bb_mid"] + sign * (df["bb_std"] * 2): NaN when either operand is
Band(mid, sd, sign) ==
    IF mid.def /\ sd.def
    THEN [def |-> TRUE, num |-> mid.num, den |-> mid.den, k |-> sign * BB_K,
          rnum |-> sd.rnum, rden |-> sd.rden]
    ELSE NaN

\* Record n of df.to_dict("records") for the sorted rows.
Record(rows, n) ==
    [time |-> rows[n].time, ticker |-> rows[n].ticker,
     close |-> rows[n].close, volume |-> rows[n].volume,
     sma_20 |-> rolling_mean(rows, SMA_SHORT, n),
     sma_50 |-> rolling_mean(rows, SMA_MID, n),
     sma_100 |-> rolling_mean(rows, SMA_LONG, n),
     bb_mid |-> rolling_mean(rows, BB_WINDOW, n),
     bb_std |-> rolling_std(rows, BB_WINDOW, n),
     bb_upper |-> Band(rolling_mean(rows, BB_WINDOW, n),
                       rolling_std(rows, BB_WINDOW, n), 1),
     bb_lower |-> Band(rolling_mean(rows, BB_WINDOW, n),
                       rolling_std(rows, BB_WINDOW, n), -1)]

Records(rows) == [n \in 1..Len(rows) |-> Record(rows, n)]

\* get_db_connection() returned None
IndicatorsConnectFail(t) ==
    /\ phase = "serving"
    /\ indicators' = [status |-> 500, error |-> "Database connection failed",
                      ticker |-> "", data |-> <<>>]
    /\ UNCHANGED <<environ, phase, tableExists, table, pc, tk, df, i, pend, resp>>

\* The query raises (relation missing, connection lost): 500.
IndicatorsError(t) ==
    /\ phase = "serving"
    /\ indicators' = [status |-> 500, error |-> "exception", ticker |-> "",
                      data |-> <<>>]
    /\ UNCHANGED <<environ, phase, tableExists, table, pc, tk, df, i, pend, resp>>

\* if not rows: the "No data" body, with the default status 200
IndicatorsNoData(t) ==
    /\ phase = "serving" /\ tableExists
    /\ SelectRows(table, t) = <<>>
    /\ indicators' = [status |-> 200, error |-> "No data", ticker |-> "",
                      data |-> <<>>]
    /\ UNCHANGED <<environ, phase, tableExists, table, pc, tk, df, i, pend, resp>>

\* The query sees the committed rows only.  SQL leaves the order of rows of
\* equal time to the plan: a forward scan meets them in heap order, a
\* backward scan of idx_stock_prices_ticker_time in the reverse order.
IndicatorsOk(t, backward) ==
    /\ phase = "serving" /\ tableExists
    /\ \E rows \in {SelectRows(table, t)} :
          /\ rows # <<>>
          /\ \E sorted \in {SortByTime(IF backward THEN Reverse(rows) ELSE rows)} :
                indicators' = [status |-> 200, error |-> "", ticker |-> upper(t),
                               data |-> Records(sorted)]
    /\ UNCHANGED <<environ, phase, tableExists, table, pc, tk, df, i, pend, resp>>

\* ------------------------------------------------------------------ Next
Next ==
    \/ init_db
    \/ app_run
    \/ \E p \in Procs, t \in Tickers, d \in Frames : FetchHistory(p, t, d)
    \/ \E p \in Procs, t \in Tickers : FetchSourceError(p, t)
    \/ \E p \in Procs : FetchNoData(p)
    \/ \E p \in Procs : FetchConnect(p)
    \/ \E p \in Procs : FetchConnectFail(p)
    \/ \E p \in Procs : InsertBar(p)
    \/ \E p \in Procs : InsertFail(p)
    \/ \E p \in Procs : Commit(p)
    \/ \E p \in Procs : CommitFail(p)
    \/ \E t \in Tickers : IndicatorsConnectFail(t)
    \/ \E t \in Tickers : IndicatorsError(t)
    \/ \E t \in Tickers : IndicatorsNoData(t)
    \/ \E t \in Tickers, backward \in BOOLEAN : IndicatorsOk(t, backward)

Spec == Init /\ [][Next]_vars

\* ------------------------------------------------ start-up specification
NextBoot == init_db \/ app_run

SpecBoot == InitBoot /\ [][NextBoot]_vars

\* ---------------------------------------------- sequential specification
\* Requests served one after the other (app.run(threaded=False), or a client
\* that waits for each answer): a request is taken up only when no other is
\* in flight.
Alone(p) == \A q \in Procs \ {p} : pc[q] \in {"idle", "done"}

FetchHistoryAlone(p, t, d) == Alone(p) /\ FetchHistory(p, t, d)

FetchSourceErrorAlone(p, t) == Alone(p) /\ FetchSourceError(p, t)

NextSeq ==
    \/ init_db
    \/ app_run
    \/ \E p \in Procs, t \in Tickers, d \in Frames : FetchHistoryAlone(p, t, d)
    \/ \E p \in Procs, t \in Tickers : FetchSourceErrorAlone(p, t)
    \/ \E p \in Procs : FetchNoData(p)
    \/ \E p \in Procs : FetchConnect(p)
    \/ \E p \in Procs : FetchConnectFail(p)
    \/ \E p \in Procs : InsertBar(p)
    \/ \E p \in Procs : InsertFail(p)
    \/ \E p \in Procs : Commit(p)
    \/ \E p \in Procs : CommitFail(p)
    \/ \E t \in Tickers : IndicatorsConnectFail(t)
    \/ \E t \in Tickers : IndicatorsError(t)
    \/ \E t \in Tickers : IndicatorsNoData(t)
    \/ \E t \in Tickers, backward \in BOOLEAN : IndicatorsOk(t, backward)

SpecSeq == Init /\ [][NextSeq]_vars

\* ---------------------------------------------- indicator specification
\* The rows n days of ingestion leave for AAPL: one bar per day, closes
\* alternating, and the last day stored again when it was ingested twice.
History(n, again) ==
    LET bar(d) == IF d % 2 = 1
                  THEN [time |-> d * TicksPerDay, Open |-> 1, High |-> 2, Low |-> 1,
                        Close |-> 1, Volume |-> 10]
                  ELSE [time |-> d * TicksPerDay, Open |-> 1, High |-> 3, Low |-> 1,
                        Close |-> 2, Volume |-> 20]
        once == [d \in 1..n |-> Row("aapl", bar(d))]
    IN IF again /\ n > 0 THEN Append(once, once[n]) ELSE once

InitInd ==
    /\ environ = [ENV |-> "unset", DB_PASSWORD |-> "unset"]
    /\ phase = "serving"
    /\ tableExists = TRUE
    /\ \E n \in 0..MaxHist, again \in BOOLEAN : table = History(n, again)
    /\ pc = [p \in Procs |-> "done"]
    /\ tk = [p \in Procs |-> ""]
    /\ df = [p \in Procs |-> <<>>]
    /\ i = [p \in Procs |-> 0]
    /\ pend = [p \in Procs |-> <<>>]
    /\ resp = [p \in Procs |-> NoResponse]
    /\ indicators = NoIndicators

NextInd ==
    \/ \E t \in Tickers : IndicatorsConnectFail(t)
    \/ \E t \in Tickers : IndicatorsError(t)
    \/ \E t \in Tickers : IndicatorsNoData(t)
    \/ \E t \in Tickers, backward \in BOOLEAN : IndicatorsOk(t, backward)

SpecInd == InitInd /\ [][NextInd]_vars

\* ============================================================ properties
\* Rows of the table that share their (ticker, time) with an earlier row.
SameKey(r1, r2) == r1.ticker = r2.ticker /\ r1.time = r2.time

\* Whether every row of batch is in rows already, values included.
AllStored(batch, rows) ==
    \A k \in 1..Len(batch) : \E j \in 1..Len(rows) : rows[j] = batch[k]

\* Request p takes the step that ends its handler.
Returns(p) == pc[p] # "done" /\ pc'[p] = "done"

\* C1: with requests served one after the other, running an ingestion again
\* when every bar of it is already stored with the same values (the state one
\* run leaves) changes nothing in the table: same rows, same count, same
\* values.
C1_IdempotentUpsert ==
    [][\A p \in Procs :
         (Returns(p) /\ resp'[p].status = 200 /\ AllStored(pend[p], table))
             => table' = table]_vars

\* C2: in every reachable state the table holds at most one row for any
\* (ticker, time) pair, whatever the interleaving of the ingestions.
C2_OneRowPerKey ==
    \A j, k \in 1..Len(table) : SameKey(table[j], table[k]) => j = k

\* C3: the records get_indicators returns are strictly increasing in time.
C3_StrictlyIncreasing ==
    indicators.status = 200 =>
        \A n \in 1..(Len(indicators.data) - 1) :
            indicators.data[n].time < indicators.data[n + 1].time

C5_EmptySource ==
    [][\A p \in Procs :
         (pc[p] = "fetched" /\ df[p] = <<>> /\ pc'[p] # "fetched")
             => /\ resp'[p].status = 404
                /\ pc'[p] = "done"
                /\ pend'[p] = <<>>
                /\ table' = table]_vars

\* A request whose source returned nothing has been answered 404.
C5_Witness == \E p \in Procs : pc[p] = "done" /\ resp[p].status = 404

\* C6: when an ingestion fails after k >= 1 of its bars were inserted, those
\* k bars stay stored and the failure response carries the count of bars
\* written.
C6_PartialProgress ==
    [][\A p \in Procs :
         (/\ pc[p] = "insert" /\ Returns(p) /\ resp'[p].status = 500
          /\ pend[p] # <<>>)
             => /\ table' = table \o pend[p]
                /\ "rows_imported" \in resp'[p].keys
                /\ resp'[p].rows_imported = Len(pend[p])]_vars

\* C7: the success body carries the number of bars the source returned, the
\* upper-case ticker and the dates of the first and last fetched bar.
C7_ReportedCount ==
    [][\A p \in Procs :
         (Returns(p) /\ resp'[p].status = 200)
             => /\ resp'[p].rows_imported = Len(df[p])
                /\ (tk[p] = "aapl" => resp'[p].ticker = "AAPL")
                /\ (tk[p] = "MSFT" => resp'[p].ticker = "MSFT")
                /\ resp'[p].date_range =
                      <<df[p][1].time \div TicksPerDay,
                        df[p][Len(df[p])].time \div TicksPerDay>>]_vars

\* Two ingestions of one ticker succeeded, the later one re-sending a bar the
\* earlier one stored, and each reported all the bars it fetched.
C7_Witness ==
    \E p, q \in Procs :
        /\ p # q
        /\ resp[p].status = 200 /\ resp[q].status = 200
        /\ resp[p].ticker = resp[q].ticker
        /\ resp[p].rows_imported = 2 /\ resp[q].rows_imported = 2
        /\ \E j, k \in 1..Len(table) : j # k /\ table[j] = table[k]

\* C8: a step never removes or changes a stored row, adds rows only for the
\* upper-case form of a requested ticker, and an insert of a bar whose
\* (ticker, time) is already stored or pending can go through.
C8_RowsUntouched ==
    [][/\ Len(table') >= Len(table)
       /\ \A j \in 1..Len(table) : table'[j] = table[j]
       /\ \A j \in (Len(table) + 1)..Len(table') :
             \E p \in Procs :
                 /\ pc[p] = "insert" /\ Returns(p)
                 /\ (tk[p] = "aapl" => table'[j].ticker = "AAPL")
                 /\ (tk[p] = "MSFT" => table'[j].ticker = "MSFT")
       /\ \A p \in Procs :
             (pc[p] = "insert" /\ i[p] < Len(df[p]) /\ tableExists)
                 => ENABLED InsertBar(p)]_vars

\* An ingestion committed a bar for a (ticker, time) that was stored before
\* with another close: both rows are there.
C8_Witness ==
    \E j, k \in 1..Len(table) :
        /\ j < k
        /\ SameKey(table[j], table[k])
        /\ table[j].close # table[k].close
        /\ \E p \in Procs : pc[p] = "done" /\ resp[p].status = 200

\* C9: the backend never serves with ENV=production and the default store
\* password.
C9_CredentialCheck ==
    ~(phase = "serving" /\ Config.ENV = "production" /\ DB_PASSWORD = "postgres")

\* C10: the table changes only by a commit that publishes all the bars of one
\* call at once; a call that ends in failure publishes none; and a query
\* returns exactly the committed rows of its ticker, none of the pending.
C10_SingleTransaction ==
    [][/\ table' # table =>
             \E p \in Procs :
                 /\ pc[p] = "insert" /\ Returns(p) /\ resp'[p].status = 200
                 /\ Len(table') = Len(table) + Len(df[p])
                 /\ \A n \in 1..Len(df[p]) :
                       /\ table'[Len(table) + n].time = df[p][n].time
                       /\ table'[Len(table) + n].close = df[p][n].Close
       /\ \A p \in Procs :
             (Returns(p) /\ resp'[p].status # 200) => table' = table
       /\ (indicators' # indicators /\ indicators'.status = 200) =>
             Len(indicators'.data) =
                 Cardinality({j \in 1..Len(table) :
                                 table[j].ticker = indicators'.ticker})]_vars

\* A query answered with the stored bars of a ticker while another ingestion
\* of that ticker has inserted some, not yet all, of its bars.
C10_Witness ==
    \E p \in Procs :
        /\ pc[p] = "insert" /\ i[p] >= 1 /\ i[p] < Len(df[p])
        /\ indicators.status = 200
        /\ indicators.ticker = pend[p][1].ticker
        /\ Len(indicators.data) = Len(table)
        /\ Len(table) >= 1

====
